---- MODULE Spec2Model ----
(***************************************************************************)
(* Model of apply_cache_fix.py: a one-shot patcher that reads              *)
(* worker\src\integrations\twelvedata.ts, applies one re.sub and two       *)
(* str.replace substitutions, and writes the file back when the text       *)
(* changed.                                                                *)
(*                                                                         *)
(* Text is a sequence of tokens.  A token is a maximal piece of text that  *)
(* the patterns treat as a unit: the part of a line shared by an old and a *)
(* new fragment, the part in which they differ, or a line terminator.  On  *)
(* disk a line terminator is "LF", "CRLF" or "CR"; in memory (after the    *)
(* text-mode read) it is NL.                                               *)
(***************************************************************************)
EXTENDS Integers, Sequences, FiniteSets, TLC

\* ---------------------------------------------------------------- bounds
MaxFrags == 3
MaxRuns == 2

\* ---------------------------------------------------------------- tokens
NL == "\n"

FuncHead == "function getCachedData<T>(key: string"

OldSigTail == "): T | null {"

NewSigTail == ", ignoreExpiry: boolean = false): T | null {"

CallHead == "const cachedData = getCachedData<"

PricePointT == "PricePoint[]"

QuoteT == "{ price: number; change: number; changePercent: number }"

CallMid == ">(cacheKey"

TrueArg == ", true"

CallEnd == ");"

OtherText == "// unrelated"

\* The text matched by the old_func pattern (the backquote of the source is
\* written ' in the tokens).  Every metacharacter of the
\* pattern is escaped, so the pattern matches exactly this text (re.DOTALL
\* has nothing to act on).
OldFunc ==
  << FuncHead, OldSigTail, NL,
     "    const cached = cache.get(key);", NL,
     "    if (cached && (Date.now() - cached.timestamp) < CACHE_TTL) {", NL,
     "        const ageSeconds = Math.round((Date.now() - cached.timestamp) / 1000);", NL,
     "        console.log('[Cache] Hit for ${key} (${ageSeconds}s old)');", NL,
     "        return cached.data;", NL,
     "    }", NL,
     "    return null;", NL,
     "}" >>

NewFunc ==
  << FuncHead, NewSigTail, NL,
     "    const cached = cache.get(key);", NL,
     "    if (!cached) return null;", NL,
     "    ", NL,
     "    const ageSeconds = Math.round((Date.now() - cached.timestamp) / 1000);", NL,
     "    ", NL,
     "    // When rate limited, return cache regardless of age", NL,
     "    if (ignoreExpiry) {", NL,
     "        console.log('[Cache] Hit for ${key} (${ageSeconds}s old) - ignoring expiry');", NL,
     "        return cached.data;", NL,
     "    }", NL,
     "    ", NL,
     "    // Normal: check TTL", NL,
     "    if ((Date.now() - cached.timestamp) < CACHE_TTL) {", NL,
     "        console.log('[Cache] Hit for ${key} (${ageSeconds}s old)');", NL,
     "        return cached.data;", NL,
     "    }", NL,
     "    ", NL,
     "    return null;", NL,
     "}" >>

OldCandles == << CallHead, PricePointT, CallMid, CallEnd >>

\* a replacement that keeps the old fragment and appends to it
NewCandlesKeepsOld == << CallHead, PricePointT, CallMid, CallEnd, TrueArg >>

NewCandles == << CallHead, PricePointT, CallMid, TrueArg, CallEnd >>

OldQuote == << CallHead, QuoteT, CallMid, CallEnd >>

NewQuote == << CallHead, QuoteT, CallMid, TrueArg, CallEnd >>

\* ------------------------------------------------------- string functions
\* positions at which old starts in s
Matches(old, s) ==
  { i \in 1..(Len(s) - Len(old) + 1) : SubSeq(s, i, i + Len(old) - 1) = old }

\* old in s
Occurs(old, s) == Matches(old, s) # {}

\* a replacement of the first occurrence only, as with count=1
ReplaceFirst(s, old, new) ==
  IF Matches(old, s) = {} THEN s
  ELSE LET i == CHOOSE j \in Matches(old, s) :
                  \A k \in Matches(old, s) : j <= k
       IN SubSeq(s, 1, i - 1) \o new \o SubSeq(s, i + Len(old), Len(s))

RECURSIVE Replace(_, _, _)
\* s.replace(old, new) and re.sub of a literal pattern: every
\* non-overlapping occurrence, leftmost first, the replacement not rescanned.
Replace(s, old, new) ==
  IF Matches(old, s) = {} THEN s
  ELSE LET i == CHOOSE j \in Matches(old, s) :
                  \A k \in Matches(old, s) : j <= k
       IN SubSeq(s, 1, i - 1) \o new
            \o Replace(SubSeq(s, i + Len(old), Len(s)), old, new)

\* Text-mode read with newline=None: "\r\n", "\r" and "\n" all become "\n".
DecodeTok(t) == IF t \in {"LF", "CRLF", "CR"} THEN NL ELSE t

Decode(d) == [i \in 1..Len(d) |-> DecodeTok(d[i])]

\* Text-mode write with newline=None: "\n" becomes os.linesep.
Encode(s, sep) == [i \in 1..Len(s) |-> IF s[i] = NL THEN sep ELSE s[i]]

\* --------------------------------------------------------- console lines
ReadingLine == "Reading file..."

Fix1Line == "Applying Fix 1: getCachedData function..."

Fix2Line == "Applying Fix 2: getStockCandles..."

Fix3Line == "Applying Fix 3 & 4: getStockQuote..."

NoChangeBanner == "No changes applied - pattern matching failed!"

WritingLine == "Writing updated file..."

SuccessBanner == "Successfully applied all cache fixes!"

NextStepsLine == "\nNext steps:"

CdLine == "1. cd worker"

DeployLine == "2. npm run deploy"

ErrorBanner == "Error: {e}"

TracebackLine == "Traceback (most recent call last):"

\* the success banner printed after the follow-up lines
SuccessLinesBannerLast ==
  << NextStepsLine, CdLine, DeployLine, SuccessBanner >>

\* the four prints between the write and return True
SuccessLines == << SuccessBanner, NextStepsLine, CdLine, DeployLine >>

\* ------------------------------------------------------------ input files
\* Lines a target file is made of: the old function, the two old call
\* sites, a call site that is patched already, an unrelated line, and a
\* function with the old signature line but another body.
Frags ==
  { OldFunc, OldCandles, OldQuote, NewCandles, << OtherText >>,
    << FuncHead, OldSigTail, NL, "}" >> }

EolStyles == {"LF", "CRLF", "CR"}

LineSeps == {"LF", "CRLF"}

Modes == {"rw", "ro", "noread", "binary"}

RECURSIVE JoinLines(_, _)
\* the lines of fs, each followed by the line terminator eol, as disk bytes
JoinLines(fs, eol) ==
  IF fs = << >> THEN << >>
  ELSE Encode(Head(fs), eol) \o << eol >> \o JoinLines(Tail(fs), eol)

FragSeqs == UNION { [1..n -> Frags] : n \in 0..MaxFrags }

\* ------------------------------------------------------------------ state
VARIABLES
  disk,      \* bytes of the target file
  mode,      \* what the file system allows: "rw", "ro", "noread", "binary"
  linesep,   \* os.linesep of the host
  pc,        \* position in the script
  content,   \* local variable content
  original,  \* local variable original
  rh,        \* the read handle is open
  wh,        \* the write handle is open
  out,       \* lines printed so far in this run
  exc,       \* pending exception class, or "none"
  code,      \* argument of the pending SystemExit
  ret,       \* "True" or "False" returned by apply_fixes, "none" before
  status,    \* process exit status, -1 while running
  run,       \* number of the current run
  disk0,     \* history: disk when this run started
  steps,     \* history: content before each substitution and after the last
  wcount,    \* history: write scopes entered in this run
  rcount,    \* history: read scopes entered in this run
  wrote,     \* history: the write scope of this run completed
  raisedIn,  \* history: where this run raised an Exception, "none" if nowhere
  prevStatus \* history: exit status of the previous run, -1 if none

vars == << disk, mode, linesep, pc, content, original, rh, wh, out, exc, code,
           ret, status, run, disk0, steps, wcount, rcount, wrote, raisedIn,
           prevStatus >>

hist == << disk0, wcount, rcount, wrote, raisedIn, prevStatus >>

env == << mode, linesep >>

locals == << content, original, steps >>

Init ==
  /\ \E fs \in FragSeqs, eol \in EolStyles : disk = JoinLines(fs, eol)
  /\ mode \in Modes
  /\ linesep \in LineSeps
  /\ pc = "main"
  /\ content = << >>
  /\ original = << >>
  /\ rh = FALSE
  /\ wh = FALSE
  /\ out = << >>
  /\ exc = "none"
  /\ code = -1
  /\ ret = "none"
  /\ status = -1
  /\ run = 1
  /\ disk0 = disk
  /\ steps = << >>
  /\ wcount = 0
  /\ rcount = 0
  /\ wrote = FALSE
  /\ raisedIn = "none"
  /\ prevStatus = -1

\* a bare except: catches SystemExit as well
CaughtBare(e) == TRUE

\* except UnicodeDecodeError: lets the errors of open and write through
CaughtDecodeOnly(e) == e = "UnicodeDecodeError"

\* except Exception: SystemExit derives from BaseException only.
Caught(e) == e \in {"OSError", "UnicodeDecodeError"}

\* 0 if success else 1
ExitCode(success) == IF success = "True" THEN 0 ELSE 1

\* the comparison with the original left out
ChangedAlways(c, o) == TRUE

\* content == original is false
Changed(c, o) == c # o

\* every open truncating, as when the file is opened 'w+' to be read
OpenEffectTruncates(flag, d) == << >>

\* What open(FILE_PATH, flag) does to the bytes d of an existing file.
OpenEffect(flag, d) == IF flag = "w" THEN << >> ELSE d

\* a handle that is opened without with and never closed
ScopeExitLeak(h) == h

\* Leaving a with block, normally or by an exception, closes the handle.
ScopeExit(h) == FALSE

\* ---------------------------------------------------------------- actions
\* try: success = apply_fixes() ... print("Reading file...")
PrintReading ==
  /\ pc = "main"
  /\ out' = Append(out, ReadingLine)
  /\ pc' = "open_r"
  /\ UNCHANGED << disk, env, locals, rh, wh, exc, code, ret, status, run,
                  hist >>

\* with open(FILE_PATH, 'r', encoding='utf-8') as f:
OpenRead ==
  /\ pc = "open_r"
  /\ IF mode = "noread"
     THEN /\ exc' = "OSError"
          /\ raisedIn' = "read"
          /\ pc' = "raised"
          /\ UNCHANGED << disk, rh, rcount >>
     ELSE /\ rh' = TRUE
          /\ rcount' = rcount + 1
          /\ disk' = OpenEffect("r", disk)
          /\ pc' = "read"
          /\ UNCHANGED << exc, raisedIn >>
  /\ UNCHANGED << env, locals, wh, out, code, ret, status, run, disk0,
                  wcount, wrote, prevStatus >>

\* content = f.read(), leaving the with block, original = content
ReadClose ==
  /\ pc = "read"
  /\ rh' = ScopeExit(rh)
  /\ IF mode = "binary"
     THEN /\ exc' = "UnicodeDecodeError"
          /\ raisedIn' = "read"
          /\ pc' = "raised"
          /\ UNCHANGED locals
     ELSE /\ content' = Decode(disk)
          /\ original' = Decode(disk)
          /\ steps' = << >>
          /\ pc' = "fix1"
          /\ UNCHANGED << exc, raisedIn >>
  /\ UNCHANGED << disk, env, wh, out, code, ret, status, run, disk0, wcount,
                  rcount, wrote, prevStatus >>

\* Fix 1: content = re.sub(old_func, new_func, content, flags=re.DOTALL)
Fix1 ==
  /\ pc = "fix1"
  /\ out' = Append(out, Fix1Line)
  /\ content' = Replace(content, OldFunc, NewFunc)
  /\ steps' = Append(steps, content)
  /\ pc' = "fix2"
  /\ UNCHANGED << disk, env, original, rh, wh, exc, code, ret, status, run,
                  hist >>

\* Fix 2: content = content.replace(<PricePoint[] call>, <... , true>)
Fix2 ==
  /\ pc = "fix2"
  /\ out' = Append(out, Fix2Line)
  /\ content' = Replace(content, OldCandles, NewCandles)
  /\ steps' = Append(steps, content)
  /\ pc' = "fix3"
  /\ UNCHANGED << disk, env, original, rh, wh, exc, code, ret, status, run,
                  hist >>

\* Fix 3 & 4: content = content.replace(<quote call>, <... , true>)
Fix3 ==
  /\ pc = "fix3"
  /\ out' = Append(out, Fix3Line)
  /\ content' = Replace(content, OldQuote, NewQuote)
  /\ steps' = steps \o << content, content' >>
  /\ pc' = "compare"
  /\ UNCHANGED << disk, env, original, rh, wh, exc, code, ret, status, run,
                  hist >>

\* if content == original: print(no changes); return False
\* else: print("Writing updated file...")
Compare ==
  /\ pc = "compare"
  /\ IF Changed(content, original)
     THEN /\ out' = Append(out, WritingLine)
          /\ pc' = "open_w"
          /\ UNCHANGED ret
     ELSE /\ out' = Append(out, NoChangeBanner)
          /\ ret' = "False"
          /\ pc' = "returned"
  /\ UNCHANGED << disk, env, locals, rh, wh, exc, code, status, run, hist >>

\* with open(FILE_PATH, 'w', encoding='utf-8') as f:
OpenWrite ==
  /\ pc = "open_w"
  /\ IF mode = "ro"
     THEN /\ exc' = "OSError"
          /\ raisedIn' = "write"
          /\ pc' = "raised"
          /\ UNCHANGED << disk, wh, wcount >>
     ELSE /\ wh' = TRUE
          /\ wcount' = wcount + 1
          /\ disk' = OpenEffect("w", disk)
          /\ pc' = "write"
          /\ UNCHANGED << exc, raisedIn >>
  /\ UNCHANGED << env, locals, rh, out, code, ret, status, run, disk0,
                  rcount, wrote, prevStatus >>

\* f.write(content) and leaving the with block
WriteClose ==
  /\ pc = "write"
  /\ disk' = Encode(content, linesep)
  /\ wh' = ScopeExit(wh)
  /\ wrote' = TRUE
  /\ pc' = "written"
  /\ UNCHANGED << env, locals, rh, out, exc, code, ret, status, run, disk0,
                  wcount, rcount, raisedIn, prevStatus >>

\* f.write(content) or the flush on close fails (device full, I/O error):
\* nothing or part of the text reached the file, and the with block
\* releases the handle.
WriteRaise ==
  /\ pc = "write"
  /\ \E n \in {0, Len(content) \div 2} :
       disk' = SubSeq(Encode(content, linesep), 1, n)
  /\ wh' = ScopeExit(wh)
  /\ exc' = "OSError"
  /\ raisedIn' = "write"
  /\ pc' = "raised"
  /\ UNCHANGED << env, locals, rh, out, code, ret, status, run, disk0,
                  wcount, rcount, wrote, prevStatus >>

\* the success banner, the next steps, return True
PrintSuccess ==
  /\ pc = "written"
  /\ out' = out \o SuccessLines
  /\ ret' = "True"
  /\ pc' = "returned"
  /\ UNCHANGED << disk, env, locals, rh, wh, exc, code, status, run, hist >>

\* exit(0 if success else 1): raises SystemExit inside the try block
MainExit ==
  /\ pc = "returned"
  /\ exc' = "SystemExit"
  /\ code' = ExitCode(ret)
  /\ pc' = "raised"
  /\ UNCHANGED << disk, env, locals, rh, wh, out, ret, status, run, hist >>

\* except Exception as e: print(Error: e); exit(1)
HandleException ==
  /\ pc = "raised"
  /\ Caught(exc)
  /\ out' = Append(out, ErrorBanner)
  /\ exc' = "SystemExit"
  /\ code' = 1
  /\ pc' = "unwind"
  /\ UNCHANGED << disk, env, locals, rh, wh, ret, status, run, hist >>

\* An exception leaves the try statement: SystemExit ends the process with
\* its code, anything else with a traceback and status 1.
ProcessExit ==
  /\ \/ pc = "raised" /\ ~Caught(exc)
     \/ pc = "unwind"
  /\ IF exc = "SystemExit"
     THEN /\ status' = code
          /\ UNCHANGED out
     ELSE /\ status' = 1
          /\ out' = Append(out, TracebackLine)
  /\ pc' = "exit"
  /\ UNCHANGED << disk, env, locals, rh, wh, exc, code, ret, run, hist >>

\* The user runs the script again on the same file.
Rerun ==
  /\ pc = "exit"
  /\ run < MaxRuns
  /\ run' = run + 1
  /\ prevStatus' = status
  /\ disk0' = disk
  /\ pc' = "main"
  /\ content' = << >>
  /\ original' = << >>
  /\ steps' = << >>
  /\ out' = << >>
  /\ exc' = "none"
  /\ code' = -1
  /\ ret' = "none"
  /\ status' = -1
  /\ wcount' = 0
  /\ rcount' = 0
  /\ wrote' = FALSE
  /\ raisedIn' = "none"
  /\ UNCHANGED << disk, env, rh, wh >>

Next ==
  \/ PrintReading
  \/ OpenRead
  \/ ReadClose
  \/ Fix1
  \/ Fix2
  \/ Fix3
  \/ Compare
  \/ OpenWrite
  \/ WriteClose
  \/ WriteRaise
  \/ PrintSuccess
  \/ MainExit
  \/ HandleException
  \/ ProcessExit
  \/ Rerun

Spec == Init /\ [][Next]_vars

\* ------------------------------------------------------------- type check
TypeOK ==
  /\ mode \in Modes
  /\ linesep \in LineSeps
  /\ rh \in BOOLEAN
  /\ wh \in BOOLEAN
  /\ status \in {-1, 0, 1}
  /\ run \in 1..MaxRuns

\* ------------------------------------------------- vocabulary of the claims
Printed(line) == \E i \in 1..Len(out) : out[i] = line

IsPrefix(p, s) == Len(p) <= Len(s) /\ SubSeq(s, 1, Len(p)) = p

Count(old, s) == Cardinality(Matches(old, s))

\* the text of the file as the run found it
Text0 == Decode(disk0)

HasOldFunc == Occurs(OldFunc, Text0)

HasOldCandles == Occurs(OldCandles, Text0)

HasOldQuote == Occurs(OldQuote, Text0)

\* all three substitutions have run
Substituted == Len(steps) = 4

\* step k found its pattern in the content it was applied to
Matched1 == Substituted /\ Occurs(OldFunc, steps[1])

Matched2 == Substituted /\ Occurs(OldCandles, steps[2])

Matched3 == Substituted /\ Occurs(OldQuote, steps[3])

Finished == pc = "exit"

\* C1: a run ends with status 0 or 1; 0 exactly when the substituted content
\* differs from the original and the write completed; 1 when nothing
\* changed; 1, with the exception caught and no traceback, when reading or
\* writing raised.
C1_ExitStatus ==
  /\ ~Finished => status = -1
  /\ Finished =>
       /\ status \in {0, 1}
       /\ status = 0 <=> (Substituted /\ steps[4] # steps[1] /\ wrote)
       /\ (Substituted /\ steps[4] = steps[1]) => status = 1
       /\ raisedIn # "none" =>
            status = 1 /\ Printed(ErrorBanner) /\ ~Printed(TracebackLine)

C1_Witness ==
  /\ Finished
  /\ status = 0
  /\ wrote
  /\ steps[4] # steps[1]

\* C2: when none of the three old patterns occurs in the file, the file is
\* never opened for writing, its bytes stay what they were, and the run ends
\* with status 1.
C2_NoPatternUntouched ==
  (~HasOldFunc /\ ~HasOldCandles /\ ~HasOldQuote) =>
    /\ wcount = 0
    /\ ~wh
    /\ disk = disk0
    /\ Finished => status = 1

C2_Witness ==
  /\ Finished
  /\ ~HasOldFunc /\ ~HasOldCandles /\ ~HasOldQuote
  /\ disk0 # << >>
  /\ Printed(NoChangeBanner)
  /\ status = 1

\* C3: in the run that follows a run that changed and wrote the file, none
\* of the old patterns is in the file, the file stays as the first run
\* wrote it, and the run ends with the no-change banner and status 1.
C3_SecondRunNoOp ==
  (run > 1 /\ prevStatus = 0) =>
    /\ ~HasOldFunc /\ ~HasOldCandles /\ ~HasOldQuote
    /\ disk = disk0
    /\ wcount = 0
    /\ Finished =>
         /\ status = 1
         /\ out = << ReadingLine, Fix1Line, Fix2Line, Fix3Line,
                     NoChangeBanner >>

C3_Witness ==
  /\ run = 2
  /\ prevStatus = 0
  /\ Finished
  /\ status = 1
  /\ Occurs(NewFunc, Text0)
  /\ Occurs(NewCandles, Text0)
  /\ Occurs(NewQuote, Text0)

AllPatterns == {OldFunc, NewFunc, OldCandles, NewCandles, OldQuote, NewQuote}

\* the places of the bytes d that lie outside every span of an old or new
\* pattern
OutsidePlaces(d) ==
  { i \in 1..Len(d) :
      \A P \in AllPatterns :
        \A j \in Matches(P, Decode(d)) : i < j \/ i >= j + Len(P) }

\* the bytes of d outside the spans, in order
Outside(d) ==
  LET U == OutsidePlaces(d)
  IN [k \in 1..Cardinality(U) |->
        d[CHOOSE i \in U : Cardinality({j \in U : j <= i}) = k]]

\* C4: when the file holds the old function and both old call sites, the
\* file written by a successful run holds the new function and both new
\* call sites, and its bytes outside the replaced spans are those of the
\* original, in the same order.
C4_PatchedAndFramePreserved ==
  (Finished /\ status = 0 /\ HasOldFunc /\ HasOldCandles /\ HasOldQuote) =>
    /\ Occurs(NewFunc, Decode(disk))
    /\ Occurs(NewCandles, Decode(disk))
    /\ Occurs(NewQuote, Decode(disk))
    /\ Outside(disk) = Outside(disk0)

\* C5 as stated: whenever at least one of the three steps matched, the file
\* is written and the run ends with status 0.
C5_AnyMatchExitsZero ==
  (Finished /\ (Matched1 \/ Matched2 \/ Matched3)) => (wrote /\ status = 0)

\* C5 amended: a step whose pattern is absent leaves the content as it was;
\* each literal replacement turns every occurrence of its fragment, as it
\* stood in the file, into the new fragment; the content differs from the
\* original exactly when a step matched, and then the write step is reached
\* and the run ends with status 0 exactly when the write completed.
C5_StepsIndependent ==
  Substituted =>
    /\ ~Occurs(OldFunc, steps[1]) => steps[2] = steps[1]
    /\ ~Occurs(OldCandles, steps[2]) => steps[3] = steps[2]
    /\ ~Occurs(OldQuote, steps[3]) => steps[4] = steps[3]
    /\ Count(OldCandles, steps[2]) = Count(OldCandles, steps[1])
    /\ Count(OldQuote, steps[3]) = Count(OldQuote, steps[1])
    /\ Count(NewFunc, steps[4]) =
         Count(NewFunc, steps[1]) + Count(OldFunc, steps[1])
    /\ Count(NewCandles, steps[4]) =
         Count(NewCandles, steps[1]) + Count(OldCandles, steps[1])
    /\ Count(NewQuote, steps[4]) =
         Count(NewQuote, steps[1]) + Count(OldQuote, steps[1])
    /\ ~Occurs(OldFunc, steps[4])
    /\ ~Occurs(OldCandles, steps[4])
    /\ ~Occurs(OldQuote, steps[4])
    /\ (Matched1 \/ Matched2 \/ Matched3) <=> steps[4] # steps[1]
    /\ (Finished /\ (Matched1 \/ Matched2 \/ Matched3)) =>
         /\ Printed(WritingLine)
         /\ status = 0 <=> wrote

C5_Witness ==
  /\ Finished
  /\ ~Matched1
  /\ Matched2
  /\ Matched3
  /\ Count(OldFunc, steps[1]) = 0
  /\ Count(NewCandles, steps[4]) > Count(NewCandles, steps[1])
  /\ status = 0

\* C6: when the file cannot be opened for writing and holds at least one
\* old pattern, the run prints the error message of the caught exception,
\* never the success banner, ends with status 1 and leaves the bytes of the
\* file as they were.
C6_ReadOnlyFails ==
  (mode = "ro" /\ (HasOldFunc \/ HasOldCandles \/ HasOldQuote)) =>
    /\ disk = disk0
    /\ ~wh
    /\ ~Printed(SuccessBanner)
    /\ Finished =>
         /\ status = 1
         /\ raisedIn = "write"
         /\ out[Len(out)] = ErrorBanner
         /\ ~Printed(TracebackLine)

C6_Witness ==
  /\ Finished
  /\ mode = "ro"
  /\ HasOldCandles
  /\ raisedIn = "write"
  /\ status = 1

\* the complete outputs of a run
FinalOutputs ==
  { << ReadingLine, ErrorBanner >>,
    << ReadingLine, Fix1Line, Fix2Line, Fix3Line, NoChangeBanner >>,
    << ReadingLine, Fix1Line, Fix2Line, Fix3Line, WritingLine, ErrorBanner >>,
    << ReadingLine, Fix1Line, Fix2Line, Fix3Line, WritingLine, SuccessBanner,
       NextStepsLine, CdLine, DeployLine >> }

Banners == {SuccessBanner, NoChangeBanner, ErrorBanner}

\* C7: the lines are printed in one order (reading, Fix 1, Fix 2, Fix 3 & 4,
\* then the no-change banner, or the writing line and then the success
\* banner and the follow-up lines; the error banner ends a run that raised);
\* a finished run has printed exactly one banner; the success banner is
\* printed only once the write has completed.
C7_OutputOrder ==
  /\ \E f \in FinalOutputs : IsPrefix(out, f)
  /\ Printed(SuccessBanner) => wrote
  /\ Finished =>
       /\ out \in FinalOutputs
       /\ Cardinality({i \in 1..Len(out) : out[i] \in Banners}) = 1

C7_Witness ==
  /\ Finished
  /\ Printed(SuccessBanner)
  /\ Printed(DeployLine)
  /\ wrote

\* C8: the bytes of the file change in at most one write scope per run,
\* which is entered only after the read, the three substitutions and the
\* comparison; until then, and in a run that raised while reading, the
\* bytes are those the run found.
C8_WriteOnlyAtEnd ==
  /\ wcount <= 1
  /\ wcount = 0 => disk = disk0
  /\ raisedIn = "read" => disk = disk0
  /\ wcount = 1 =>
       /\ Substituted
       /\ steps[4] # steps[1]
       /\ ~rh
       /\ Printed(WritingLine)

C8_Witness ==
  /\ wcount = 1
  /\ disk # disk0
  /\ Finished

\* C9: a run opens the file at most once for reading and then at most once
\* for writing; the read handle is closed before the substitutions start;
\* the two handles are never open together; no handle is open when the
\* process exits, also after an exception raised inside either scope.
C9_Handles ==
  /\ rcount <= 1
  /\ wcount <= 1
  /\ wcount = 1 => rcount = 1
  /\ ~(rh /\ wh)
  /\ rh => pc = "read"
  /\ wh => pc = "write"
  /\ Finished => (~rh /\ ~wh)

C9_Witness ==
  /\ Finished
  /\ raisedIn = "write"
  /\ wcount = 1
  /\ rcount = 1
  /\ ~rh
  /\ ~wh

\* C10: when the success banner is printed and apply_fixes returns True,
\* each of the three substitution steps matched and changed the content.
C10_SuccessMeansAllApplied ==
  (Printed(SuccessBanner) /\ ret = "True") =>
    /\ Matched1 /\ steps[2] # steps[1]
    /\ Matched2 /\ steps[3] # steps[2]
    /\ Matched3 /\ steps[4] # steps[3]

====
